---- MODULE Spec2Model ----
(***************************************************************************)
(* Model of the coding-agent workflow graph of the data cleaning agent:    *)
(*   templates/agent_templates.py  (create_coding_agent_graph and the      *)
(*                                  generic node functions)                *)
(*   agents/data_cleaning_agent.py (make_data_cleaning_agent)              *)
(*                                                                         *)
(* Encoding of Python values                                               *)
(*   None              <<>>                                                *)
(*   a value v         <<v>>                                               *)
(*   key not in state  Absent (state.get(key) reads it as None)            *)
(*   str               a sequence of tokens; + is \o.  The reviewer's      *)
(*                     input is a sequence of one-character tokens.        *)
(***************************************************************************)
EXTENDS Integers, Sequences, FiniteSets, TLC

\* ------------------------------------------------------------------ bounds
\* largest retry_count / max_retries a caller passes to the graph
MaxRetriesBound == 2
\* largest number of rejecting human reviews explored in one run
MaxRounds == 2

\* ------------------------------------------------------ Python value coding
None == <<>>
Some(v) == <<v>>
Absent == <<"<absent>", "<absent>">>
Val(o) == o[1]

\* dict.get(key): a missing key reads as None
Get(s, k) == IF s[k] = Absent THEN None ELSE s[k]

\* ------------------------------------------------------------ node names
END == "__end__"
RAISED == "<raised>"
recommend_cleaning_steps == "recommend_cleaning_steps"
create_data_cleaner_code == "create_data_cleaner_code"
execute_data_cleaner_code == "execute_data_cleaner_code"
fix_data_cleaner_code == "fix_data_cleaner_code"
human_review == "human_review"
report_agent_outputs == "report_agent_outputs"

\* the keys of GraphState
StateKeys ==
    {"messages", "user_instructions", "recommended_steps", "data_raw",
     "data_cleaned", "all_datasets_summary", "data_cleaner_function",
     "data_cleaner_function_path", "data_cleaner_file_name",
     "data_cleaner_function_name", "data_cleaner_error", "max_retries",
     "retry_count"}

\* What the text returned by the LLM does when it is exec'ed and called:
\*   ok           defines the function; it returns a table
\*   returns_none defines the function; it returns None
\*   raises       defines the function; it raises when called
\*   post_raises  defines the function; its result makes post-processing raise
\*   absent       does not bind the expected function name
\*   noncallable  binds the expected name to something that is not callable
\*   def_raises   exec of the text itself raises
CodeKinds ==
    {"ok", "returns_none", "raises", "post_raises", "absent", "noncallable",
     "def_raises"}

\* inputs a reviewer may give when the run is resumed
ReviewInputs ==
    { <<"y", "e", "s">>,
      <<" ", "Y", "e", "S", "\n">>,
      <<"n", "o">>,
      <<>> }

\* ------------------------------------------------------------ str methods
IsWhitespace(c) == c \in {" ", "\n", "\t"}

RECURSIVE lstrip(_)
lstrip(s) ==
    IF s = <<>> THEN s
    ELSE IF IsWhitespace(Head(s)) THEN lstrip(Tail(s)) ELSE s

RECURSIVE rstrip(_)
rstrip(s) ==
    IF s = <<>> THEN s
    ELSE IF IsWhitespace(s[Len(s)]) THEN rstrip(SubSeq(s, 1, Len(s) - 1))
    ELSE s

strip(s) == rstrip(lstrip(s))

lowerChar(c) ==
    CASE c = "Y" -> "y"
      [] c = "E" -> "e"
      [] c = "S" -> "s"
      [] c = "N" -> "n"
      [] c = "O" -> "o"
      [] OTHER -> c

lower(s) == [i \in 1..Len(s) |-> lowerChar(s[i])]

VARIABLES
    params,      \* keyword arguments given to make_data_cleaning_agent
    app,         \* the compiled graph built from params
    state,       \* the GraphState of the run
    pc,          \* node that runs next, END, or RAISED (exception at caller)
    lastNode,    \* node that ran most recently ("" before the first)
    goto,        \* routing target produced by the most recent node
    llm_out,     \* text most recently returned by the LLM chain
    user_input,  \* value the most recent resume supplied to interrupt()
    summary_by,  \* node that most recently called get_dataframe_summary
    rounds,      \* rejecting reviews so far in this run
    self_response, \* the agent's response attribute
    exec_error,  \* error the most recent execute step returned
    fixes,       \* executions of the fix node in this run
    executes,    \* executions of the execute node in this run
    local_vars,  \* namespace the most recent execute step left behind
    call,        \* arguments of the function or method under call
    ret          \* what the calls made so far returned

\* bookkeeping of the run that the nodes themselves cannot read
hist == <<exec_error, fixes, executes, local_vars>>

vars ==
    <<params, app, state, pc, lastNode, goto, llm_out, user_input, summary_by,
      rounds, self_response, exec_error, fixes, executes, local_vars, call, ret>>

\* ------------------------------------------------------- state reducers
\* langgraph applies a node's returned dict to the state: messages is
\* Annotated[..., operator.add] (concatenation), every other key is replaced.
ApplyUpdate_replaces(s, u) ==
    [k \in DOMAIN s |-> IF k \in DOMAIN u THEN u[k] ELSE s[k]]

ApplyUpdate(s, u) ==
    [k \in DOMAIN s |->
        IF k \in DOMAIN u
        THEN IF k = "messages" THEN s[k] \o u[k] ELSE u[k]
        ELSE s[k]]

\* --------------------------------------------------------- graph builder
error_and_can_retry_any_outcome(s) ==
    /\ Get(s, "retry_count") # None
    /\ Get(s, "max_retries") # None
    /\ Val(s["retry_count"]) < Val(s["max_retries"])

error_and_can_retry_le(s) ==
    /\ Get(s, "data_cleaner_error") # None
    /\ Get(s, "retry_count") # None
    /\ Get(s, "max_retries") # None
    /\ Val(s["retry_count"]) <= Val(s["max_retries"])

error_and_can_retry(s) ==
    /\ Get(s, "data_cleaner_error") # None
    /\ Get(s, "retry_count") # None
    /\ Get(s, "max_retries") # None
    /\ Val(s["retry_count"]) < Val(s["max_retries"])

create_coding_agent_graph_explain_first(human_in_the_loop, bypass_recommended_steps, bypass_explain_code) ==
    [ nodes |->
        {create_data_cleaner_code, execute_data_cleaner_code,
         fix_data_cleaner_code}
        \cup (IF ~bypass_recommended_steps
              THEN {recommend_cleaning_steps} ELSE {})
        \cup (IF human_in_the_loop THEN {human_review} ELSE {})
        \cup (IF ~bypass_explain_code THEN {report_agent_outputs} ELSE {}),
      entry_point |->
        IF bypass_recommended_steps
        THEN create_data_cleaner_code ELSE recommend_cleaning_steps,
      edges |->
        (IF ~bypass_recommended_steps
         THEN {<<recommend_cleaning_steps, create_data_cleaner_code>>}
         ELSE {})
        \cup {<<create_data_cleaner_code, execute_data_cleaner_code>>,
              <<fix_data_cleaner_code, execute_data_cleaner_code>>}
        \cup (IF ~bypass_explain_code
              THEN {<<report_agent_outputs, END>>} ELSE {}),
      fix_code |-> fix_data_cleaner_code,
      otherwise |->
        IF ~bypass_explain_code THEN report_agent_outputs
        ELSE IF human_in_the_loop THEN human_review
        ELSE END ]

create_coding_agent_graph_entry_recommend(human_in_the_loop, bypass_recommended_steps, bypass_explain_code) ==
    [ nodes |->
        {create_data_cleaner_code, execute_data_cleaner_code,
         fix_data_cleaner_code, recommend_cleaning_steps}
        \cup (IF human_in_the_loop THEN {human_review} ELSE {})
        \cup (IF ~bypass_explain_code THEN {report_agent_outputs} ELSE {}),
      entry_point |-> recommend_cleaning_steps,
      edges |->
        {<<recommend_cleaning_steps, create_data_cleaner_code>>,
         <<create_data_cleaner_code, execute_data_cleaner_code>>,
         <<fix_data_cleaner_code, execute_data_cleaner_code>>}
        \cup (IF ~bypass_explain_code
              THEN {<<report_agent_outputs, END>>} ELSE {}),
      fix_code |-> fix_data_cleaner_code,
      otherwise |->
        IF human_in_the_loop THEN human_review
        ELSE IF ~bypass_explain_code THEN report_agent_outputs
        ELSE END ]

create_coding_agent_graph(human_in_the_loop, bypass_recommended_steps, bypass_explain_code) ==
    [ nodes |->
        {create_data_cleaner_code, execute_data_cleaner_code,
         fix_data_cleaner_code}
        \cup (IF ~bypass_recommended_steps
              THEN {recommend_cleaning_steps} ELSE {})
        \cup (IF human_in_the_loop THEN {human_review} ELSE {})
        \cup (IF ~bypass_explain_code THEN {report_agent_outputs} ELSE {}),
      entry_point |->
        IF bypass_recommended_steps
        THEN create_data_cleaner_code ELSE recommend_cleaning_steps,
      edges |->
        (IF ~bypass_recommended_steps
         THEN {<<recommend_cleaning_steps, create_data_cleaner_code>>}
         ELSE {})
        \cup {<<create_data_cleaner_code, execute_data_cleaner_code>>,
              <<fix_data_cleaner_code, execute_data_cleaner_code>>}
        \cup (IF ~bypass_explain_code
              THEN {<<report_agent_outputs, END>>} ELSE {}),
      \* conditional edge out of the execute node
      fix_code |-> fix_data_cleaner_code,
      otherwise |->
        IF human_in_the_loop THEN human_review
        ELSE IF ~bypass_explain_code THEN report_agent_outputs
        ELSE END ]

\* a graph whose entry point or edges name a node that was not added
\* cannot be compiled
CompileOk(g) ==
    /\ g.entry_point \in g.nodes
    /\ \A e \in g.edges : e[1] \in g.nodes /\ e[2] \in g.nodes \cup {END}
    /\ g.fix_code \in g.nodes
    /\ g.otherwise \in g.nodes \cup {END}

make_data_cleaning_agent_no_override(p) ==
    [ graph |->
        create_coding_agent_graph(p.human_in_the_loop,
                                  p.bypass_recommended_steps,
                                  p.bypass_explain_code),
      bypass_recommended_steps |-> p.bypass_recommended_steps,
      checkpointer |->
        IF p.human_in_the_loop /\ p.checkpointer = None
        THEN Some("MemorySaver") ELSE p.checkpointer,
      yes_goto |->
        IF ~p.bypass_explain_code THEN "explain_data_cleaner_code" ELSE END,
      no_goto |-> recommend_cleaning_steps ]

make_data_cleaning_agent_no_saver(p) ==
    LET bypass_recommended_steps ==
            IF p.bypass_recommended_steps /\ p.human_in_the_loop
            THEN FALSE ELSE p.bypass_recommended_steps
    IN  [ graph |->
            create_coding_agent_graph(p.human_in_the_loop,
                                      bypass_recommended_steps,
                                      p.bypass_explain_code),
          bypass_recommended_steps |-> bypass_recommended_steps,
          checkpointer |-> p.checkpointer,
          yes_goto |->
            IF ~p.bypass_explain_code THEN "explain_data_cleaner_code"
            ELSE END,
          no_goto |-> recommend_cleaning_steps ]

make_data_cleaning_agent(p) ==
    LET bypass_recommended_steps ==
            IF p.bypass_recommended_steps /\ p.human_in_the_loop
            THEN FALSE ELSE p.bypass_recommended_steps
        \* a run with human review gets a MemorySaver when none was given
        checkpointer ==
            IF p.human_in_the_loop /\ p.checkpointer = None
            THEN Some("MemorySaver") ELSE p.checkpointer
    IN  [ graph |->
            create_coding_agent_graph(p.human_in_the_loop,
                                      bypass_recommended_steps,
                                      p.bypass_explain_code),
          \* value of the local the create-code closure reads
          bypass_recommended_steps |-> bypass_recommended_steps,
          \* what the graph is compiled with
          checkpointer |-> checkpointer,
          \* targets the human_review closure passes to node_func_human_review
          yes_goto |->
            IF ~p.bypass_explain_code THEN "explain_data_cleaner_code"
            ELSE END,
          no_goto |-> recommend_cleaning_steps ]

\* node that follows `node` once its update gave state s
NextNode(g, node, s) ==
    IF node = execute_data_cleaner_code
    THEN IF error_and_can_retry(s) THEN g.fix_code ELSE g.otherwise
    ELSE CHOOSE t \in g.nodes \cup {END} : <<node, t>> \in g.edges

\* ------------------------------------------------------- node functions
\* get_dataframe_summary joined with "\n\n": a text computed from the data
dataframe_summary(data) == <<"summary of ", data>>

\* recommend_cleaning_steps: returns the formatted LLM answer and the summary
recommend_cleaning_steps_update(s, answer) ==
    [ recommended_steps |->
          Some(<<"# Recommended Data Cleaning Steps:", answer>>),
      all_datasets_summary |-> Some(dataframe_summary(Val(s["data_raw"]))) ]

\* create_data_cleaner_code: bypass is the closure's bypass_recommended_steps,
\* response the code returned by the LLM chain (logging is off: no path)
create_data_cleaner_code_update(s, bypass, response) ==
    LET all_datasets_summary_str ==
            IF bypass
            THEN Some(dataframe_summary(Val(s["data_raw"])))
            ELSE IF s["all_datasets_summary"] = Absent
                 THEN Some(<<>>)
                 ELSE s["all_datasets_summary"]
    IN  [ data_cleaner_function |-> Some(response),
          data_cleaner_function_path |-> None,
          data_cleaner_file_name |-> None,
          data_cleaner_function_name |-> Some("data_cleaner"),
          all_datasets_summary |-> all_datasets_summary_str ]

error_message_prefix == "An error occurred during data cleaning: "

agent_function_name == "data_cleaner"

\* exec(agent_code, global_vars, local_vars): the names the code binds are
\* added to the namespace; each bound object is described by the code that
\* bound it.  Code of kind absent binds another name, def_raises binds none.
exec(code, namespace) ==
    CASE code = "def_raises" -> namespace
      [] code = "absent" -> ("helper" :> code) @@ namespace
      [] OTHER -> (agent_function_name :> code) @@ namespace

\* local_vars = {} at the start of every call, whatever an earlier call left
new_local_vars_reused(stale) == stale

new_local_vars(stale) == [n \in {} |-> n]

\* node_func_execute_agent_code_on_data.  exec() and the lookup of the
\* function are outside the try block: what they raise leaves the node.
\* Inside the try block result keeps the function's return value when the
\* post-processing raises.
node_func_execute_agent_code_on_data(s, stale) ==
    LET agent_code == Get(s, "data_cleaner_function")
        code == IF agent_code = None THEN "def_raises" ELSE Val(agent_code)
        ns == exec(code, new_local_vars(stale))
        found == agent_function_name \in DOMAIN ns
        kind == IF found THEN ns[agent_function_name] ELSE "absent"
    IN  IF code = "def_raises"
        THEN [raised |-> TRUE, update |-> <<>>, local_vars |-> ns]
        ELSE IF kind \in {"absent", "noncallable"}
        THEN [raised |-> TRUE, update |-> <<>>, local_vars |-> ns]
        ELSE [ raised |-> FALSE,
               local_vars |-> ns,
               update |->
                 CASE kind = "ok" ->
                        [ data_cleaned |-> Some(<<"cleaned ", Val(s["data_raw"])>>),
                          data_cleaner_error |-> None ]
                   [] kind = "returns_none" ->
                        [ data_cleaned |-> None,
                          data_cleaner_error |-> None ]
                   [] kind = "raises" ->
                        [ data_cleaned |-> None,
                          data_cleaner_error |->
                              Some(<<error_message_prefix, "function raised">>) ]
                   [] OTHER ->
                        [ data_cleaned |-> Some(<<"unprocessed result">>),
                          data_cleaner_error |->
                              Some(<<error_message_prefix, "post raised">>) ] ]

\* node_func_fix_agent_code: response is the repaired code from the LLM
node_func_fix_agent_code_clears_result(s, response) ==
    [ data_cleaner_function |-> Some(response),
      data_cleaner_error |-> None,
      data_cleaned |-> None,
      retry_count |-> Some(Val(Get(s, "retry_count")) + 1) ]

node_func_fix_agent_code(s, response) ==
    [ data_cleaner_function |-> Some(response),
      data_cleaner_error |-> None,
      retry_count |-> Some(Val(Get(s, "retry_count")) + 1) ]

\* node_func_human_review after interrupt() returned input; [fence] stands for three backquotes
code_markdown(s) ==
    <<"[fence]python\n">> \o <<Val(Get(s, "data_cleaner_function"))>>
        \o <<"\n[fence]">>

modifications(input) ==
    <<"User Has Requested Modifications To Previous Code: \n">> \o input

node_func_human_review_exact(s, yes_goto, no_goto, input) ==
    IF input = <<"y", "e", "s">>
    THEN [goto |-> yes_goto, update |-> <<>>]
    ELSE [ goto |-> no_goto,
           update |->
             [ user_instructions |->
                 Some((IF Get(s, "user_instructions") = None
                       THEN <<>> ELSE Val(s["user_instructions"]))
                      \o modifications(input) \o <<"\n\nPrevious Code:\n">>
                      \o code_markdown(s)) ] ]

node_func_human_review_overwrites(s, yes_goto, no_goto, input) ==
    IF strip(lower(input)) = <<"y", "e", "s">>
    THEN [goto |-> yes_goto, update |-> <<>>]
    ELSE [ goto |-> no_goto,
           update |->
             [ user_instructions |->
                 Some(modifications(input) \o <<"\n\nPrevious Code:\n">>
                      \o code_markdown(s)) ] ]

node_func_human_review_resets_retries(s, yes_goto, no_goto, input) ==
    IF lower(strip(input)) = <<"y", "e", "s">>
    THEN [goto |-> yes_goto, update |-> <<>>]
    ELSE [ goto |-> no_goto,
           update |->
             [ user_instructions |->
                 Some((IF Get(s, "user_instructions") = None
                       THEN <<>> ELSE Val(s["user_instructions"]))
                      \o modifications(input) \o <<"\n\nPrevious Code:\n">>
                      \o code_markdown(s)),
               retry_count |-> Some(0) ] ]

node_func_human_review(s, yes_goto, no_goto, input) ==
    IF lower(strip(input)) = <<"y", "e", "s">>
    THEN [goto |-> yes_goto, update |-> <<>>]
    ELSE [ goto |-> no_goto,
           update |->
             IF Get(s, "user_instructions") = None
             THEN [ user_instructions |->
                      Some(modifications(input) \o <<"\n\nPrevious Code:\n">>
                           \o code_markdown(s)) ]
             ELSE [ user_instructions |->
                      Some(Val(s["user_instructions"]) \o modifications(input)
                           \o <<"\n\nPrevious Code:\n">> \o code_markdown(s)) ] ]

\* node_func_report_agent_outputs: one message holding the title and the
\* requested keys, a placeholder standing for a key the state lacks
node_func_report_agent_outputs_generic_error(s, keys_to_include, role, custom_title) ==
    LET final_report ==
            [ k \in {"report_title"} \cup keys_to_include |->
                IF k \in keys_to_include
                THEN IF k \notin DOMAIN s \/ s[k] = Absent
                     THEN Some(<<"<", k, "_not_found_in_state>">>)
                     ELSE IF k = "data_cleaner_error" /\ s[k] # None
                     THEN Some(<<"The agent encountered an error">>)
                     ELSE s[k]
                ELSE Some(<<custom_title>>) ]
    IN  [ messages |-> << [content |-> final_report, role |-> role] >> ]

node_func_report_agent_outputs(s, keys_to_include, role, custom_title) ==
    LET final_report ==
            [ k \in {"report_title"} \cup keys_to_include |->
                IF k \in keys_to_include
                THEN IF k \notin DOMAIN s \/ s[k] = Absent
                     THEN Some(<<"<", k, "_not_found_in_state>">>)
                     ELSE s[k]
                ELSE Some(<<custom_title>>) ]
    IN  [ messages |-> << [content |-> final_report, role |-> role] >> ]

ReportKeys ==
    {"recommended_steps", "data_cleaner_function",
     "data_cleaner_function_path", "data_cleaner_function_name",
     "data_cleaner_error"}

\* ------------------------------------------------------------ behaviour
\* what a caller may pass for retry_count and max_retries: the key left out
\* of the input mapping, or an integer
RetryInputs == {Absent} \cup {Some(n) : n \in 0..MaxRetriesBound}

\* messages a caller may hand to the graph: none, or one earlier message
InitialMessages ==
    { <<>>,
      << [ content |-> [k \in {"text"} |-> Some(<<"earlier message">>)],
           role |-> "user" ] >> }

\* no method of the agent object is under call: the compiled graph is
\* invoked directly
NoCall ==
    [ method |-> "", overrides |-> <<>>, always_raises |-> FALSE,
      had_response |-> FALSE, n |-> 0 ]

\* what the LLM chain may answer with when asked for code; a call made with
\* always_raises is a run in which every generated function raises
LLMCodes == IF call.always_raises THEN {"raises"} ELSE CodeKinds

\* self.response = response, at the end of invoke_agent and of invoke
invoke_agent_response_first_only(old, response) ==
    IF old = None THEN Some(response) ELSE old

invoke_agent_response(old, response) == Some(response)

\* what every run starts from, besides its input
NewRun ==
    /\ lastNode = ""
    /\ llm_out = ""
    /\ user_input = <<>>
    /\ summary_by = ""
    /\ rounds = 0
    /\ exec_error = Absent
    /\ fixes = 0
    /\ executes = 0
    /\ local_vars = [n \in {} |-> n]

InitialState(messages, user_instructions, max_retries, retry_count) ==
    [ k \in StateKeys |->
        CASE k = "messages" -> messages
          [] k = "user_instructions" -> user_instructions
          [] k = "data_raw" -> Some("data_raw")
          [] k = "max_retries" -> max_retries
          [] k = "retry_count" -> retry_count
          [] OTHER -> Absent ]

Init ==
    /\ params \in [ human_in_the_loop : BOOLEAN,
                    bypass_recommended_steps : BOOLEAN,
                    bypass_explain_code : BOOLEAN,
                    checkpointer : {None} ]
    /\ app = make_data_cleaning_agent(params)
    /\ \E ui \in {None, Some(<<"original instructions">>)},
          mr \in RetryInputs, rc \in RetryInputs :
            state = InitialState(<<>>, ui, mr, rc)
    /\ pc = app.graph.entry_point
    /\ goto = app.graph.entry_point
    /\ NewRun
    /\ self_response = None
    /\ call = NoCall
    /\ ret = <<>>

\* invoke_agent (and a resuming invoke) returns when the run reaches the end
\* or is suspended in the review node; it then stores the state it got in
\* self.response
ReturnPoints == {END, human_review}

\* a node returned update u: apply it and follow the node's outgoing edge
Complete(node, u) ==
    LET s2 == ApplyUpdate(state, u)
        n == NextNode(app.graph, node, s2)
    IN  /\ state' = s2
        /\ goto' = n
        /\ pc' = n
        /\ lastNode' = node
        /\ self_response' =
                IF n \in ReturnPoints
                THEN invoke_agent_response(self_response, s2)
                ELSE self_response

Recommend ==
    /\ pc = recommend_cleaning_steps
    /\ Complete(recommend_cleaning_steps,
                recommend_cleaning_steps_update(state, "steps"))
    /\ llm_out' = "steps"
    /\ summary_by' = recommend_cleaning_steps
    /\ UNCHANGED <<params, app, user_input, rounds, hist, call, ret>>

CreateCode ==
    /\ pc = create_data_cleaner_code
    /\ \E response \in LLMCodes :
        /\ Complete(create_data_cleaner_code,
                    create_data_cleaner_code_update(
                        state, app.bypass_recommended_steps, response))
        /\ llm_out' = response
    /\ summary_by' = IF app.bypass_recommended_steps
                     THEN create_data_cleaner_code ELSE summary_by
    /\ UNCHANGED <<params, app, user_input, rounds, hist, call, ret>>

ExecuteCode ==
    /\ pc = execute_data_cleaner_code
    /\ LET r == node_func_execute_agent_code_on_data(state, local_vars)
       IN  /\ IF r.raised
              THEN /\ pc' = RAISED
                   /\ lastNode' = execute_data_cleaner_code
                   /\ UNCHANGED <<state, goto, self_response, exec_error>>
              ELSE /\ Complete(execute_data_cleaner_code, r.update)
                   /\ exec_error' = r.update.data_cleaner_error
           /\ local_vars' = r.local_vars
    /\ executes' = executes + 1
    /\ UNCHANGED <<params, app, llm_out, user_input, summary_by, rounds,
                   fixes, call, ret>>

FixCode ==
    /\ pc = fix_data_cleaner_code
    /\ \E response \in LLMCodes :
        /\ Complete(fix_data_cleaner_code,
                    node_func_fix_agent_code(state, response))
        /\ llm_out' = response
    /\ fixes' = fixes + 1
    /\ UNCHANGED <<params, app, user_input, summary_by, rounds, exec_error,
                   executes, local_vars, call, ret>>

\* the run is suspended in interrupt(); a resume supplies the reviewer's
\* input and the node returns Command(goto, update).  A goto naming no node
\* of the compiled graph starts no node: the run stops, with or without an
\* exception at the caller.  The resume goes on in the suspended node because
\* the graph was compiled with a checkpointer, which saved the state at the
\* suspension; a graph compiled without one has nothing to go on from and
\* the run starts over at the entry point.
ResumePoint(a) ==
    IF a.checkpointer # None THEN human_review ELSE a.graph.entry_point

HumanReview ==
    /\ pc = human_review
    /\ IF ResumePoint(app) = human_review
       THEN /\ \E input \in ReviewInputs :
                LET c == node_func_human_review(state, app.yes_goto,
                                                app.no_goto, input)
                    rejected == c.goto = app.no_goto
                IN  /\ rejected => rounds < MaxRounds
                    /\ state' = ApplyUpdate(state, c.update)
                    /\ goto' = c.goto
                    /\ pc' \in IF c.goto \in app.graph.nodes \cup {END}
                               THEN {c.goto} ELSE {END, RAISED}
                    /\ user_input' = input
                    /\ rounds' = IF rejected THEN rounds + 1 ELSE rounds
            /\ self_response' =
                    IF pc' = END
                    THEN invoke_agent_response(self_response, state')
                    ELSE self_response
            /\ lastNode' = human_review
       ELSE /\ rounds < MaxRounds
            /\ rounds' = rounds + 1
            /\ pc' = ResumePoint(app)
            /\ goto' = ResumePoint(app)
            /\ lastNode' = ""
            /\ UNCHANGED <<state, user_input, self_response>>
    /\ UNCHANGED <<params, app, llm_out, summary_by, hist, call, ret>>

Report ==
    /\ pc = report_agent_outputs
    /\ Complete(report_agent_outputs,
                node_func_report_agent_outputs(
                    state, ReportKeys, "data_cleaning_agent",
                    "Data Cleaning Agent Outputs"))
    /\ UNCHANGED <<params, app, llm_out, user_input, summary_by, rounds,
                   hist, call, ret>>

Next ==
    \/ Recommend
    \/ CreateCode
    \/ ExecuteCode
    \/ FixCode
    \/ HumanReview
    \/ Report

Spec == Init /\ [][Next]_vars

\* ------------------------------------- runs on a conversation under way
\* the compiled graph invoked with an input that carries earlier messages
InitMessages ==
    /\ params \in [ human_in_the_loop : BOOLEAN,
                    bypass_recommended_steps : BOOLEAN,
                    bypass_explain_code : BOOLEAN,
                    checkpointer : {None} ]
    /\ app = make_data_cleaning_agent(params)
    /\ \E ms \in InitialMessages \ {<<>>},
          mr \in 0..MaxRetriesBound, rc \in 0..MaxRetriesBound :
            state = InitialState(ms, Some(<<"original instructions">>),
                                 Some(mr), Some(rc))
    /\ pc = app.graph.entry_point
    /\ goto = app.graph.entry_point
    /\ NewRun
    /\ self_response = None
    /\ call = NoCall
    /\ ret = <<>>

SpecMessages == InitMessages /\ [][Next]_vars

\* --------------------------------------------- the report node by itself
\* keys a caller may name in keys_to_include: keys of the state, a key no
\* state has, and the key the function uses for the title
ReportKeyUniverse ==
    {"data_cleaner_error", "recommended_steps", "messages",
     "not_a_state_key", "report_title"}

\* calls made on one state and key list
ReportCalls == 2

ReportTitles == {"Agent Output Summary", "Data Cleaning Agent Outputs"}

\* json.dumps serialises None, str and list; a message object in a non-empty
\* messages list makes it raise TypeError
json_serializable(k, v) == ~(k = "messages" /\ v # Absent /\ Len(v) > 0)

\* one call of node_func_report_agent_outputs: what the caller gets
report_call(s, keys_to_include, role, custom_title) ==
    IF \E k \in keys_to_include \cap DOMAIN s : ~json_serializable(k, s[k])
    THEN [ raised |-> TRUE, update |-> <<>> ]
    ELSE [ raised |-> FALSE,
           update |-> node_func_report_agent_outputs(
                          s, keys_to_include, role, custom_title) ]

InitReport ==
    /\ params = [ human_in_the_loop |-> FALSE,
                  bypass_recommended_steps |-> FALSE,
                  bypass_explain_code |-> FALSE,
                  checkpointer |-> None ]
    /\ app = make_data_cleaning_agent(params)
    /\ \E ms \in InitialMessages,
          err \in {Absent, None, Some(<<error_message_prefix, "boom">>)},
          steps \in {Absent, Some(<<"steps">>)} :
            state = [ k \in StateKeys |->
                        CASE k = "messages" -> ms
                          [] k = "data_cleaner_error" -> err
                          [] k = "recommended_steps" -> steps
                          [] OTHER -> Absent ]
    /\ pc = report_agent_outputs
    /\ goto = report_agent_outputs
    /\ NewRun
    /\ self_response = None
    /\ call \in [ keys_to_include : SUBSET ReportKeyUniverse,
                  custom_title : ReportTitles ]
    /\ ret = <<>>

\* the function is called again on the same state and arguments
ReportCall ==
    /\ pc = report_agent_outputs
    /\ Len(ret) < ReportCalls
    /\ ret' = Append(ret, report_call(state, call.keys_to_include,
                                      "data_cleaning_agent",
                                      call.custom_title))
    /\ UNCHANGED <<params, app, state, pc, lastNode, goto, llm_out,
                   user_input, summary_by, rounds, self_response, hist, call>>

NextReport == ReportCall

SpecReport == InitReport /\ [][NextReport]_vars

\* ------------------------------------------- the DataCleaningAgent object
\* calls of invoke_agent and update_params made on one object
MaxCalls == 2

IDLE == "<idle>"

FlagNames ==
    {"human_in_the_loop", "bypass_recommended_steps", "bypass_explain_code"}

ParamNames == FlagNames \cup {"checkpointer"}

\* keyword arguments a caller may give update_params: nothing, one of the
\* flags, or a name make_data_cleaning_agent does not accept
Overrides ==
    {<<>>} \cup
    UNION { [{k} -> BOOLEAN] : k \in FlagNames \cup {"verbose"} }

\* ainvoke_agent is invoke_agent with the graph's ainvoke awaited: the two
\* are one operation here
InvokeMethods == {"invoke_agent"}

AccessorNames ==
    {"get_data_cleaned", "get_data_raw", "get_data_cleaner_function",
     "get_recommended_cleaning_steps", "get_workflow_summary",
     "get_log_summary"}

Returned(v) == [status |-> "returned", value |-> v]
Pending == [status |-> "pending", value |-> None]
Raises == [status |-> "raised", value |-> None]

\* if self.response: a response returned by the graph is a non-empty dict
truthy(o) == o # None /\ o # Absent

\* self.response = None, then make_data_cleaning_agent(**self._params), which
\* raises TypeError on a keyword it does not know
make_compiled_graph_keeps_response(p, response) ==
    [ raised |-> ~(DOMAIN p \subseteq ParamNames),
      response |-> response,
      compiled_graph |->
        make_data_cleaning_agent([k \in ParamNames |-> p[k]]) ]

_make_compiled_graph(p, response) ==
    [ raised |-> ~(DOMAIN p \subseteq ParamNames),
      response |-> None,
      compiled_graph |->
        make_data_cleaning_agent([k \in ParamNames |-> p[k]]) ]

\* self._params.update(kwargs)
update_params(p, kwargs) == kwargs @@ p

Markdown(text) == <<"Markdown", text>>

get_workflow_summary(response, markdown) ==
    IF truthy(response) /\ Len(Get(Val(response), "messages")) > 0
    THEN LET messages == Get(Val(response), "messages")
             summary == <<"summary", messages[Len(messages)].content>>
         IN  Returned(Some(IF markdown THEN Markdown(summary) ELSE summary))
    ELSE Returned(None)

get_log_summary(response, markdown) ==
    IF truthy(response)
          /\ truthy(Get(Val(response), "data_cleaner_function_path"))
    THEN LET log_details ==
                <<"Function Path: ",
                  Get(Val(response), "data_cleaner_function_path"),
                  "Function Name: ",
                  Get(Val(response), "data_cleaner_function_name")>>
         IN  Returned(Some(IF markdown THEN Markdown(log_details)
                           ELSE log_details))
    ELSE Returned(None)

get_data_cleaned_unguarded(response) ==
    IF response = None THEN Raises
    ELSE Returned(Some(<<"DataFrame", Get(Val(response), "data_cleaned")>>))

get_data_cleaned(response) ==
    IF truthy(response)
    THEN Returned(Some(<<"DataFrame", Get(Val(response), "data_cleaned")>>))
    ELSE Returned(None)

get_data_raw(response) ==
    IF truthy(response)
    THEN Returned(Some(<<"DataFrame", Get(Val(response), "data_raw")>>))
    ELSE Returned(None)

get_data_cleaner_function(response, markdown) ==
    IF truthy(response)
    THEN IF markdown
         THEN Returned(Some(Markdown(
                  <<"[fence]python\n",
                    Get(Val(response), "data_cleaner_function"),
                    "\n[fence]">>)))
         ELSE Returned(Get(Val(response), "data_cleaner_function"))
    ELSE Returned(None)

get_recommended_cleaning_steps(response, markdown) ==
    IF truthy(response)
    THEN IF markdown
         THEN Returned(Some(Markdown(
                  Get(Val(response), "recommended_steps"))))
         ELSE Returned(Get(Val(response), "recommended_steps"))
    ELSE Returned(None)

CallAccessor(name, response, markdown) ==
    CASE name = "get_data_cleaned" -> get_data_cleaned(response)
      [] name = "get_data_raw" -> get_data_raw(response)
      [] name = "get_data_cleaner_function" ->
            get_data_cleaner_function(response, markdown)
      [] name = "get_recommended_cleaning_steps" ->
            get_recommended_cleaning_steps(response, markdown)
      [] name = "get_workflow_summary" ->
            get_workflow_summary(response, markdown)
      [] name = "get_log_summary" -> get_log_summary(response, markdown)

\* the object after __init__
InitAgent ==
    /\ params \in [ human_in_the_loop : BOOLEAN,
                    bypass_recommended_steps : BOOLEAN,
                    bypass_explain_code : BOOLEAN,
                    checkpointer : {None} ]
    /\ app = make_data_cleaning_agent(params)
    /\ state = [k \in StateKeys |-> Absent]
    /\ pc = IDLE
    /\ goto = IDLE
    /\ NewRun
    /\ self_response = None
    /\ call = [NoCall EXCEPT !.method = "__init__"]
    /\ ret = Returned(None)

\* no method is under call: the last one returned, or raised to the caller.
\* An accessor changes nothing of the object, so the calls that can follow
\* it are those that can be made in its place: it is taken as the last call.
Idle ==
    /\ ret.status # "pending" \/ pc = RAISED
    /\ call.method \notin AccessorNames

\* invoke_agent and ainvoke_agent start a run of the compiled graph on an
\* input of exactly four keys
InvokeAgent ==
    /\ Idle
    /\ call.n < MaxCalls
    /\ \E method \in InvokeMethods,
          user_instructions \in {Some(<<"original instructions">>)},
          max_retries \in 0..MaxRetriesBound,
          retry_count \in 0..MaxRetriesBound,
          always_raises \in BOOLEAN :
        /\ state' = InitialState(<<>>, user_instructions,
                                 Some(max_retries), Some(retry_count))
        /\ call' = [ method |-> method, overrides |-> <<>>,
                     always_raises |-> always_raises,
                     had_response |-> self_response # None,
                     n |-> call.n + 1 ]
    /\ pc' = app.graph.entry_point
    /\ goto' = app.graph.entry_point
    /\ lastNode' = ""
    /\ llm_out' = ""
    /\ user_input' = <<>>
    /\ summary_by' = ""
    /\ rounds' = 0
    /\ exec_error' = Absent
    /\ fixes' = 0
    /\ executes' = 0
    /\ local_vars' = [n \in {} |-> n]
    /\ ret' = Pending
    /\ UNCHANGED <<params, app, self_response>>

\* the run ended or is suspended in the review node: the method stores the
\* state (done where the run reaches that point) and returns None
InvokeReturn ==
    /\ call.method \in InvokeMethods
    /\ ret.status = "pending"
    /\ pc \in ReturnPoints
    /\ ret' = Returned(None)
    /\ UNCHANGED <<params, app, state, pc, lastNode, goto, llm_out,
                   user_input, summary_by, rounds, self_response, hist, call>>

UpdateParams ==
    /\ Idle
    /\ call.n < MaxCalls
    /\ \E kwargs \in Overrides :
        LET p == update_params(params, kwargs)
            g == _make_compiled_graph(p, self_response)
        IN  /\ params' = p
            /\ self_response' = g.response
            /\ app' = IF g.raised THEN app ELSE g.compiled_graph
            /\ ret' = IF g.raised THEN Raises ELSE Returned(None)
            /\ call' = [ method |-> "update_params", overrides |-> kwargs,
                         always_raises |-> FALSE,
                         had_response |-> self_response # None,
                         n |-> call.n + 1 ]
    /\ UNCHANGED <<state, pc, lastNode, goto, llm_out, user_input,
                   summary_by, rounds, hist>>

Accessor ==
    /\ Idle
    /\ \E name \in AccessorNames, markdown \in BOOLEAN :
        /\ ret' = CallAccessor(name, self_response, markdown)
        /\ call' = [call EXCEPT !.method = name]
    /\ UNCHANGED <<params, app, state, pc, lastNode, goto, llm_out,
                   user_input, summary_by, rounds, self_response, hist>>

\* the reviewer's resume goes through BaseAgent.invoke, not through these
\* methods: a run suspended in the review node stays there
NextAgent ==
    \/ InvokeAgent
    \/ InvokeReturn
    \/ UpdateParams
    \/ Accessor
    \/ Recommend
    \/ CreateCode
    \/ ExecuteCode
    \/ FixCode
    \/ Report

SpecAgent == InitAgent /\ [][NextAgent]_vars

\* ------------------------------------------- update_params during ainvoke
\* ainvoke_agent awaits the compiled graph's ainvoke and stores its result
\* afterwards; while it waits, the event loop may run a call of update_params.
\* app is the graph the run in flight was started on; the object's
\* _compiled_graph attribute is the one update_params built last.
AsyncOverrides == UNION { [{k} -> BOOLEAN] : k \in FlagNames }

AInvokeAgent ==
    /\ Idle
    /\ call.n < MaxCalls
    /\ \E max_retries \in 0..MaxRetriesBound, always_raises \in BOOLEAN :
        /\ state' = InitialState(<<>>, Some(<<"original instructions">>),
                                 Some(max_retries), Some(0))
        /\ call' = [ method |-> "ainvoke_agent", overrides |-> <<>>,
                     always_raises |-> always_raises,
                     had_response |-> self_response # None,
                     n |-> call.n + 1 ]
    /\ pc' = app.graph.entry_point
    /\ goto' = app.graph.entry_point
    /\ lastNode' = ""
    /\ llm_out' = ""
    /\ user_input' = <<>>
    /\ summary_by' = ""
    /\ rounds' = 0
    /\ exec_error' = Absent
    /\ fixes' = 0
    /\ executes' = 0
    /\ local_vars' = [n \in {} |-> n]
    /\ ret' = Pending
    /\ UNCHANGED <<params, app, self_response>>

\* update_params, called while the graph's ainvoke is awaited: the parameters
\* change, the response is reset and _compiled_graph is replaced, but the run
\* in flight goes on, on the graph it was started on
UpdateParamsInFlight ==
    /\ call.method = "ainvoke_agent"
    /\ ret.status = "pending"
    /\ pc \notin ReturnPoints \cup {RAISED}
    /\ call.overrides = <<>>
    /\ \E kwargs \in AsyncOverrides :
        LET p == update_params(params, kwargs)
            g == _make_compiled_graph(p, self_response)
        IN  /\ params' = p
            /\ self_response' = g.response
            /\ call' = [call EXCEPT !.overrides = kwargs]
    /\ UNCHANGED <<app, state, pc, lastNode, goto, llm_out, user_input,
                   summary_by, rounds, hist, ret>>

\* the awaited run ended or is suspended in the review node: its result has
\* been stored (where the run reaches that point) and ainvoke_agent returns
\* None; the calls that follow run on _compiled_graph
AInvokeReturn ==
    /\ call.method = "ainvoke_agent"
    /\ ret.status = "pending"
    /\ pc \in ReturnPoints
    /\ ret' = Returned(None)
    /\ app' = _make_compiled_graph(params, self_response).compiled_graph
    /\ UNCHANGED <<params, state, pc, lastNode, goto, llm_out, user_input,
                   summary_by, rounds, self_response, hist, call>>

NextAsync ==
    \/ AInvokeAgent
    \/ UpdateParamsInFlight
    \/ AInvokeReturn
    \/ Recommend
    \/ CreateCode
    \/ ExecuteCode
    \/ FixCode
    \/ Report

SpecAsync == InitAgent /\ [][NextAsync]_vars

\* ------------------------------------------------------ the DuckDBManager
\* A manager is [connection |-> [tables, views], metadata]: tables maps the
\* name of each table to its columns and rows, views is the set of registered
\* view names, metadata maps names to the entry the manager keeps.
MaxRows == 2

TableNames == {"t", "u"}

RowValues == {1, 2}

\* frames of one column id, their rows given by their id
Frames ==
    {<<>>} \cup {<<id>> : id \in RowValues}
           \cup {r \in RowValues \X RowValues : r[1] < r[2]}

\* what a caller may pass as data: a frame of column id, a dict without
\* columns, and an empty list
DataInputs ==
    { [kind |-> "frame", columns |-> {"id"}, rows |-> r] : r \in Frames }
      \cup
    { [kind |-> "frame", columns |-> {}, rows |-> <<>>],
      [kind |-> "empty_list", columns |-> {}, rows |-> <<>>] }

\* where clauses: one value, every row, and text that is not SQL
WhereClauses == {"id = 1", "id >= 1", "id ="}

Matches(where_clause, id) ==
    CASE where_clause = "id = 1" -> id = 1
      [] where_clause = "id >= 1" -> TRUE
      [] OTHER -> FALSE

SqlError(where_clause) == where_clause = "id ="

\* the updates argument {"id": 2}
UpdatedId == 2

Raised(exception) == [status |-> "raised", value |-> exception]

Without(f, k) == [n \in DOMAIN f \ {k} |-> f[n]]

\* to_polars: an empty list is no frame
to_polars(data) ==
    IF data.kind = "empty_list"
    THEN [raised |-> TRUE, df |-> data]
    ELSE [raised |-> FALSE, df |-> data]

\* SELECT 1 FROM name succeeds on a table and on a view
table_exists(m, table_name) ==
    \/ table_name \in DOMAIN m.connection.tables
    \/ table_name \in m.connection.views

_get_row_count(m, table_name) ==
    IF table_name \in DOMAIN m.connection.tables
    THEN Len(m.connection.tables[table_name].rows)
    ELSE 0

_get_columns(m, table_name) ==
    IF table_name \in DOMAIN m.connection.tables
    THEN m.connection.tables[table_name].columns
    ELSE {}

drop_table_unchecked(m, table_name) ==
    IF table_name \notin DOMAIN m.connection.tables
    THEN [manager |-> m, ret |-> Raised("CatalogException")]
    ELSE [ manager |->
             [ connection |->
                 [ m.connection EXCEPT
                     !.tables = Without(m.connection.tables, table_name) ],
               metadata |-> Without(m.metadata, table_name) ],
           ret |-> Returned(None) ]

drop_table_keeps_metadata(m, table_name) ==
    IF ~table_exists(m, table_name)
    THEN [manager |-> m, ret |-> Raised("ValueError")]
    ELSE [ manager |->
             [ m EXCEPT !.connection.tables = Without(@, table_name) ],
           ret |-> Returned(None) ]

drop_table(m, table_name) ==
    IF ~table_exists(m, table_name)
    THEN [manager |-> m, ret |-> Raised("ValueError")]
    ELSE IF table_name \notin DOMAIN m.connection.tables
    THEN [manager |-> m, ret |-> Raised("CatalogException")]
    ELSE [ manager |->
             [ connection |->
                 [ m.connection EXCEPT
                     !.tables = Without(m.connection.tables, table_name) ],
               metadata |-> Without(m.metadata, table_name) ],
           ret |-> Returned(None) ]

temp_name(name) == "__temp_" \o name \o "_"

create_table_ignores_replace(m, name, data, replace) ==
    LET m1 == IF table_exists(m, name) THEN drop_table(m, name).manager
              ELSE m
        c == to_polars(data)
    IN  IF c.raised \/ c.df.columns = {}
        THEN [manager |-> m1, ret |-> Raised("TypeError")]
        ELSE [ manager |->
                 [ connection |->
                     [ m1.connection EXCEPT
                         !.tables = (name :> [columns |-> c.df.columns,
                                              rows |-> c.df.rows])
                                    @@ m1.connection.tables ],
                   metadata |->
                     (name :> [row_count |-> Len(c.df.rows),
                               columns |-> c.df.columns]) @@ m1.metadata ],
               ret |-> Returned(None) ]

create_table(m, name, data, replace) ==
    IF table_exists(m, name) /\ ~replace
    THEN [manager |-> m, ret |-> Raised("ValueError")]
    ELSE
    LET m1 == IF table_exists(m, name) THEN drop_table(m, name).manager
              ELSE m
        c == to_polars(data)
        registered ==
            [ m1 EXCEPT !.connection.views = @ \cup {temp_name(name)} ]
    IN  IF c.raised
        THEN [manager |-> m1, ret |-> Raised("TypeError")]
        ELSE IF c.df.columns = {}
        \* CREATE TABLE AS of a frame without columns fails; the view stays
        THEN [manager |-> registered, ret |-> Raised("Exception")]
        ELSE [ manager |->
                 [ connection |->
                     [ m1.connection EXCEPT
                         !.tables = (name :> [columns |-> c.df.columns,
                                              rows |-> c.df.rows])
                                    @@ m1.connection.tables,
                         !.views = @ \ {temp_name(name)} ],
                   metadata |->
                     (name :> [row_count |-> Len(c.df.rows),
                               columns |-> c.df.columns]) @@ m1.metadata ],
               ret |-> Returned(None) ]

insert_data(m, table_name, data) ==
    IF ~table_exists(m, table_name)
    THEN [manager |-> m, ret |-> Raised("ValueError")]
    ELSE
    LET c == to_polars(data)
        rows_before == _get_row_count(m, table_name)
    IN  IF c.raised
        THEN [manager |-> m, ret |-> Raised("TypeError")]
        ELSE IF c.df.columns # _get_columns(m, table_name)
        \* INSERT of a frame with other columns fails; finally drops the view
        THEN [manager |-> m, ret |-> Raised("Exception")]
        ELSE
        LET inserted ==
                [ m EXCEPT !.connection.tables[table_name].rows
                              = @ \o c.df.rows ]
            rows_after == _get_row_count(inserted, table_name)
        IN  [ manager |->
                IF table_name \in DOMAIN m.metadata
                THEN [ inserted EXCEPT
                         !.metadata[table_name].row_count = rows_after ]
                ELSE inserted,
              ret |-> Returned(rows_after - rows_before) ]

read_table(m, table_name) ==
    IF ~table_exists(m, table_name)
    THEN [manager |-> m, ret |-> Raised("ValueError")]
    ELSE [ manager |-> m,
           ret |-> Returned(m.connection.tables[table_name].rows) ]

update_rows(m, table_name, where_clause) ==
    IF ~table_exists(m, table_name)
    THEN [manager |-> m, ret |-> Raised("ValueError")]
    ELSE IF SqlError(where_clause)
    THEN [manager |-> m, ret |-> Raised("Exception")]
    ELSE LET rows == m.connection.tables[table_name].rows
             updated ==
                 [ m EXCEPT !.connection.tables[table_name].rows =
                     [ i \in 1..Len(rows) |->
                         IF Matches(where_clause, rows[i]) THEN UpdatedId
                         ELSE rows[i] ] ]
         IN  [ manager |-> updated,
               ret |-> Returned(_get_row_count(updated, table_name)) ]

RECURSIVE Remaining(_, _)
Remaining(rows, where_clause) ==
    IF rows = <<>> THEN <<>>
    ELSE IF Matches(where_clause, Head(rows))
    THEN Remaining(Tail(rows), where_clause)
    ELSE <<Head(rows)>> \o Remaining(Tail(rows), where_clause)

delete_rows(m, table_name, where_clause) ==
    IF ~table_exists(m, table_name)
    THEN [manager |-> m, ret |-> Raised("ValueError")]
    ELSE IF SqlError(where_clause)
    THEN [manager |-> m, ret |-> Raised("Exception")]
    ELSE LET deleted ==
                 [ m EXCEPT !.connection.tables[table_name].rows =
                     Remaining(@, where_clause) ]
         IN  [ manager |-> deleted,
               ret |-> Returned(_get_row_count(deleted, table_name)) ]

get_schema(m, table_name) ==
    IF ~table_exists(m, table_name)
    THEN [manager |-> m, ret |-> Raised("ValueError")]
    ELSE [manager |-> m, ret |-> Returned(_get_columns(m, table_name))]

get_statistics(m, table_name) ==
    IF ~table_exists(m, table_name)
    THEN [manager |-> m, ret |-> Raised("ValueError")]
    ELSE [ manager |-> m,
           ret |-> Returned(
               [ row_count |-> _get_row_count(m, table_name),
                 column_count |->
                    Cardinality(_get_columns(m, table_name)),
                 columns |-> _get_columns(m, table_name) ]) ]

\* agg is {"id": "COUNT"}, or empty; no group_by
aggregation(m, table_name, agg) ==
    IF ~table_exists(m, table_name)
    THEN [manager |-> m, ret |-> Raised("ValueError")]
    ELSE IF agg = <<>>
    THEN [manager |-> m, ret |-> Raised("ValueError")]
    ELSE [ manager |-> m,
           ret |-> Returned(_get_row_count(m, table_name)) ]

\* a manager opened on a fresh in-memory database
InitDuck ==
    /\ params = [ human_in_the_loop |-> FALSE,
                  bypass_recommended_steps |-> FALSE,
                  bypass_explain_code |-> FALSE,
                  checkpointer |-> None ]
    /\ app = make_data_cleaning_agent(params)
    /\ state = [ connection |-> [tables |-> <<>>, views |-> {}],
                 metadata |-> <<>> ]
    /\ pc = IDLE
    /\ goto = IDLE
    /\ NewRun
    /\ self_response = None
    /\ call = [ method |-> "__init__", table_name |-> "", data |-> None,
                replace |-> FALSE, where_clause |-> "", before |-> state ]
    /\ ret = Returned(None)

\* a method of the manager is called: the manager it leaves, what it
\* returned or raised, and the call with the manager it was made on
Called(method, table_name, data, replace, where_clause, r) ==
    /\ state' = r.manager
    /\ ret' = r.ret
    /\ call' = [ method |-> method, table_name |-> table_name,
                 data |-> data, replace |-> replace,
                 where_clause |-> where_clause, before |-> state ]
    /\ UNCHANGED <<params, app, pc, lastNode, goto, llm_out, user_input,
                   summary_by, rounds, self_response, hist>>

CreateTable ==
    \E name \in TableNames, data \in DataInputs, replace \in BOOLEAN :
        Called("create_table", name, data, replace, "",
               create_table(state, name, data, replace))

InsertData ==
    \E table_name \in TableNames, data \in DataInputs :
        /\ _get_row_count(state, table_name) + Len(data.rows) <= MaxRows
        /\ Called("insert_data", table_name, data, FALSE, "",
                  insert_data(state, table_name, data))

ReadTable ==
    \E table_name \in TableNames :
        Called("read_table", table_name, None, FALSE, "",
               read_table(state, table_name))

UpdateRows ==
    \E table_name \in TableNames, where_clause \in WhereClauses :
        Called("update_rows", table_name, None, FALSE, where_clause,
               update_rows(state, table_name, where_clause))

DeleteRows ==
    \E table_name \in TableNames, where_clause \in WhereClauses :
        Called("delete_rows", table_name, None, FALSE, where_clause,
               delete_rows(state, table_name, where_clause))

DropTable ==
    \E table_name \in TableNames :
        Called("drop_table", table_name, None, FALSE, "",
               drop_table(state, table_name))

GetSchema ==
    \E table_name \in TableNames :
        Called("get_schema", table_name, None, FALSE, "",
               get_schema(state, table_name))

GetStatistics ==
    \E table_name \in TableNames :
        Called("get_statistics", table_name, None, FALSE, "",
               get_statistics(state, table_name))

Aggregation ==
    \E table_name \in TableNames, agg \in {<<>>, <<"id", "COUNT">>} :
        Called("aggregation", table_name, None, FALSE, "",
               aggregation(state, table_name, agg))

NextDuck ==
    \/ CreateTable
    \/ InsertData
    \/ ReadTable
    \/ UpdateRows
    \/ DeleteRows
    \/ DropTable
    \/ GetSchema
    \/ GetStatistics
    \/ Aggregation

SpecDuck == InitDuck /\ [][NextDuck]_vars

\* ------------------------------------------------------ BaseAgentModern
\* An agent is [results, notebook, files]: the results attribute, the cells
\* of the notebook being built (None before setup_notebook), and the
\* notebook files written so far.
MaxRuns == 2

\* exception classes a caller's execute may raise; the last two do not
\* derive from Exception
ExceptionClasses == {"ValueError", "KeyboardInterrupt", "SystemExit"}

DerivesFromException(class) == class \notin {"KeyboardInterrupt", "SystemExit"}

\* what the subclass's execute does with the data: return results (empty or
\* not) or raise
ExecuteOutcomes ==
    { [kind |-> "returns", value |-> r] :
        r \in {<<>>, <<"row_count", 3>>} }
      \cup
    { [kind |-> "raises", value |-> <<c, "Intentional error">>] :
        c \in ExceptionClasses }

\* whether the notebook file can be written
SaveOutcomes == {"written", "IOError"}

ErrorMapping(text) ==
    [ status |-> "error", error |-> Some(text), results |-> Absent,
      notebook_path |-> Absent ]

SuccessMapping(results, notebook_path) ==
    [ status |-> "success", error |-> Absent, results |-> Some(results),
      notebook_path |-> Some(notebook_path) ]

\* setup_notebook when there is none, a Results section when results is not
\* empty, the Agent Info cell, then the file is saved under a new name
generate_notebook(agent, save_outcome) ==
    LET notebook == IF agent.notebook = None THEN <<"header", "imports">>
                    ELSE Val(agent.notebook)
        cells == (IF agent.results # <<>>
                  THEN notebook \o <<"## Results">> ELSE notebook)
                 \o <<"## Agent Info">>
        notebook_path == <<"notebook", Cardinality(agent.files) + 1>>
        built == [agent EXCEPT !.notebook = Some(cells)]
    IN  IF save_outcome = "IOError"
        THEN [ raised |-> TRUE, agent |-> built,
               value |-> <<"IOError", "Failed to save notebook">> ]
        ELSE [ raised |-> FALSE,
               agent |-> [built EXCEPT !.files = @ \cup {notebook_path}],
               value |-> notebook_path ]

run_validates_outside_try(agent, data, execute_outcome, save_outcome) ==
    IF data = None
    THEN [agent |-> agent, ret |-> Raised("ValueError")]
    ELSE IF execute_outcome.kind = "raises"
    THEN [ agent |-> agent,
           ret |-> Returned(ErrorMapping(execute_outcome.value[2])) ]
    ELSE LET executed == [agent EXCEPT !.results = execute_outcome.value]
             g == generate_notebook(executed, save_outcome)
         IN  IF g.raised
             THEN [agent |-> g.agent,
                   ret |-> Returned(ErrorMapping(g.value[2]))]
             ELSE [agent |-> g.agent,
                   ret |-> Returned(SuccessMapping(executed.results,
                                                   g.value))]

\* run: everything happens inside try ... except Exception
run(agent, data, execute_outcome, save_outcome) ==
    IF data = None
    THEN [ agent |-> agent,
           ret |-> Returned(ErrorMapping("Input data cannot be None")) ]
    ELSE IF execute_outcome.kind = "raises"
    THEN IF DerivesFromException(execute_outcome.value[1])
         THEN [ agent |-> agent,
                ret |-> Returned(ErrorMapping(execute_outcome.value[2])) ]
         ELSE [agent |-> agent, ret |-> Raised(execute_outcome.value[1])]
    ELSE LET executed == [agent EXCEPT !.results = execute_outcome.value]
             g == generate_notebook(executed, save_outcome)
         IN  IF g.raised
             THEN [agent |-> g.agent,
                   ret |-> Returned(ErrorMapping(g.value[2]))]
             ELSE [agent |-> g.agent,
                   ret |-> Returned(SuccessMapping(executed.results,
                                                   g.value))]

InitRun ==
    /\ params = [ human_in_the_loop |-> FALSE,
                  bypass_recommended_steps |-> FALSE,
                  bypass_explain_code |-> FALSE,
                  checkpointer |-> None ]
    /\ app = make_data_cleaning_agent(params)
    /\ state = [results |-> <<>>, notebook |-> None, files |-> {}]
    /\ pc = IDLE
    /\ goto = IDLE
    /\ NewRun
    /\ self_response = None
    /\ call = [ method |-> "__init__", data |-> None,
                execute_outcome |-> [kind |-> "returns", value |-> <<>>],
                save_outcome |-> "written", n |-> 0, before |-> state ]
    /\ ret = Returned(None)

Run ==
    /\ call.n < MaxRuns
    /\ \E data \in {None, Some("data")},
          execute_outcome \in ExecuteOutcomes,
          save_outcome \in SaveOutcomes :
        LET r == run(state, data, execute_outcome, save_outcome)
        IN  /\ state' = r.agent
            /\ ret' = r.ret
            /\ call' = [ method |-> "run", data |-> data,
                         execute_outcome |-> execute_outcome,
                         save_outcome |-> save_outcome, n |-> call.n + 1,
                         before |-> state ]
    /\ UNCHANGED <<params, app, pc, lastNode, goto, llm_out, user_input,
                   summary_by, rounds, self_response, hist>>

NextRun == Run

SpecRun == InitRun /\ [][NextRun]_vars

\* ============================================================== claims
IsInt(o) == o # Absent /\ o # None
IsPrefix(a, b) == Len(a) <= Len(b) /\ SubSeq(b, 1, Len(a)) = a
AcceptInputs == { <<"y", "e", "s">>, <<" ", "Y", "e", "S", "\n">> }
FailingKinds == {"raises", "post_raises"}
ExecuteCompleted == lastNode = execute_data_cleaner_code /\ pc # RAISED

\* C1: right after the execute node the conditional edge chose the fix node
\* if and only if error is non-null, retry_count and max_retries are non-null
\* and retry_count < max_retries; it never chose it when
\* retry_count = max_retries.
C1_RetryPredicate ==
    ExecuteCompleted =>
        /\ (goto = fix_data_cleaner_code) <=>
              /\ IsInt(state["data_cleaner_error"])
              /\ IsInt(state["retry_count"])
              /\ IsInt(state["max_retries"])
              /\ state["retry_count"][1] < state["max_retries"][1]
        /\ state["retry_count"] = state["max_retries"]
              => goto # fix_data_cleaner_code

C1_Witness ==
    /\ ExecuteCompleted
    /\ IsInt(state["data_cleaner_error"])
    /\ state["retry_count"] = Some(1)
    /\ state["max_retries"] = Some(1)
    /\ goto # fix_data_cleaner_code

\* C2: the fix node is never about to run in a state where retry_count is
\* not below max_retries.
C2_NoRepairWhenExhausted ==
    pc = fix_data_cleaner_code =>
        /\ IsInt(state["retry_count"])
        /\ IsInt(state["max_retries"])
        /\ state["retry_count"][1] < state["max_retries"][1]

C2_Witness ==
    /\ pc = fix_data_cleaner_code
    /\ state["retry_count"][1] + 1 = state["max_retries"][1]

\* C3: when the generated code binds no callable under the expected name,
\* the execute node completes with the error field set and result null; no
\* exception leaves the node.
C3_MissingFunctionReported ==
    ( /\ lastNode = execute_data_cleaner_code
      /\ state["data_cleaner_function"] \in {Some("absent"), Some("noncallable")} )
    => /\ pc # RAISED
       /\ IsInt(state["data_cleaner_error"])
       /\ Get(state, "data_cleaned") = None

\* C4: every run of the execute node ends either with error a string that
\* starts with the prefix and result null, or with result non-null and error
\* null; never with an exception.
C4_ExecuteOutcome ==
    lastNode = execute_data_cleaner_code =>
        /\ pc # RAISED
        /\ \/ /\ IsInt(state["data_cleaner_error"])
              /\ state["data_cleaner_error"][1][1] = error_message_prefix
              /\ Get(state, "data_cleaned") = None
           \/ /\ IsInt(state["data_cleaned"])
              /\ Get(state, "data_cleaner_error") = None

\* C5: error is null right after the create-code node and right after the
\* fix node, and after the execute node it is non-null exactly when that
\* execution failed.
C5_ErrorField ==
    /\ lastNode \in {create_data_cleaner_code, fix_data_cleaner_code}
          => Get(state, "data_cleaner_error") = None
    /\ ExecuteCompleted =>
          ( Get(state, "data_cleaner_error") # None
              <=> Val(state["data_cleaner_function"]) \in FailingKinds )

\* C6: a step of the fix node sets code to the repaired code, error to null,
\* retry_count to its previous value plus 1, and leaves every other state
\* field as it was.
C6_FixFrame ==
    [][ (pc = fix_data_cleaner_code /\ vars' # vars) =>
          /\ state'["data_cleaner_function"] = Some(llm_out')
          /\ state'["data_cleaner_error"] = None
          /\ state'["retry_count"] = Some(state["retry_count"][1] + 1)
          /\ \A k \in StateKeys \ {"data_cleaner_function",
                                   "data_cleaner_error", "retry_count"} :
                state'[k] = state[k] ]_vars

C6_Witness ==
    /\ lastNode = fix_data_cleaner_code
    /\ state["retry_count"] = Some(2)
    /\ IsInt(state["data_cleaned"])

\* C7: a review resumed with an input that is yes after trimming and
\* lower-casing routes to yes_goto and changes no state field.
C7_AcceptNoChange ==
    [][ (pc = human_review /\ vars' # vars /\ user_input' \in AcceptInputs) =>
          /\ goto' = app.yes_goto
          /\ state' = state ]_vars

C7_Witness ==
    /\ lastNode = human_review
    /\ user_input = <<" ", "Y", "e", "S", "\n">>
    /\ rounds = 1

\* C8: a review resumed with any other input routes to the recommend node
\* and the new user_instructions is the previous one (when non-null)
\* followed by the revision note with the reviewer's text and the rejected
\* code; every step keeps the previous user_instructions as a prefix.
C8_InstructionsAccumulate ==
    [][ /\ (pc = human_review /\ vars' # vars /\ user_input' \notin AcceptInputs)
            => /\ goto' = recommend_cleaning_steps
               /\ pc' = recommend_cleaning_steps
               /\ state'["user_instructions"] =
                    Some( (IF state["user_instructions"] = None
                           THEN <<>> ELSE state["user_instructions"][1])
                          \o <<"User Has Requested Modifications To Previous Code: \n">>
                          \o user_input'
                          \o <<"\n\nPrevious Code:\n", "[fence]python\n",
                               state["data_cleaner_function"][1], "\n[fence]">> )
        /\ state["user_instructions"] # None
            => /\ state'["user_instructions"] # None
               /\ IsPrefix(state["user_instructions"][1],
                           state'["user_instructions"][1]) ]_vars

C8_Witness ==
    /\ rounds = 2
    /\ lastNode = human_review
    /\ user_input = <<>>
    /\ state["user_instructions"][1][1] = "original instructions"

\* C9: with human review enabled an accepting review leads to a node of the
\* compiled graph: the report node when bypass_explain_code is false, the
\* end of the run when it is true.
C9_AcceptTargetExists ==
    ( /\ lastNode = human_review
      /\ user_input \in AcceptInputs
      /\ goto = app.yes_goto )
    => /\ goto \in app.graph.nodes \cup {END}
       /\ pc = IF params.bypass_explain_code THEN END ELSE report_agent_outputs

C11_ExecuteRouting ==
    /\ ExecuteCompleted =>
          /\ pc = goto
          /\ goto =
               IF /\ IsInt(state["data_cleaner_error"])
                  /\ IsInt(state["retry_count"])
                  /\ IsInt(state["max_retries"])
                  /\ state["retry_count"][1] < state["max_retries"][1]
               THEN fix_data_cleaner_code
               ELSE IF params.human_in_the_loop THEN human_review
               ELSE IF ~params.bypass_explain_code THEN report_agent_outputs
               ELSE END
    /\ lastNode = recommend_cleaning_steps => pc = create_data_cleaner_code
    /\ lastNode = create_data_cleaner_code => pc = execute_data_cleaner_code
    /\ lastNode = fix_data_cleaner_code => pc = execute_data_cleaner_code
    /\ lastNode = report_agent_outputs => pc = END

C11_Witness ==
    /\ ExecuteCompleted
    /\ params.human_in_the_loop
    /\ ~params.bypass_explain_code
    /\ IsInt(state["data_cleaner_error"])
    /\ state["retry_count"] = Some(2)
    /\ pc = human_review

\* C14: when bypass_recommended_steps is in effect the create-code node runs
\* first and the recommend node never runs; otherwise the recommend node
\* runs first and the create-code node runs right after every recommend.
C14_EntryPoint ==
    /\ app.bypass_recommended_steps =>
          /\ lastNode = "" => pc = create_data_cleaner_code
          /\ lastNode # recommend_cleaning_steps
          /\ pc # recommend_cleaning_steps
    /\ ~app.bypass_recommended_steps =>
          /\ lastNode = "" => pc = recommend_cleaning_steps
          /\ lastNode = recommend_cleaning_steps
                => pc = create_data_cleaner_code

C14_Witness ==
    /\ app.bypass_recommended_steps
    /\ lastNode = fix_data_cleaner_code
    /\ summary_by = create_data_cleaner_code

LastMessage == state["messages"][Len(state["messages"])]
Exhausted ==
    /\ IsInt(state["data_cleaner_error"])
    /\ IsInt(state["retry_count"])
    /\ IsInt(state["max_retries"])
    /\ state["retry_count"][1] >= state["max_retries"][1]

\* C12: when an execution leaves an error and retry_count >= max_retries the
\* run goes on to human review, the report node or the end, not to the fix
\* node; and the error entry of the report the report node appends is the
\* error string the last execution recorded.
C12_ExhaustedGoesOn ==
    /\ (ExecuteCompleted /\ Exhausted) =>
          pc \in {human_review, report_agent_outputs, END}
    /\ (lastNode = report_agent_outputs /\ IsInt(exec_error)) =>
          LastMessage.content["data_cleaner_error"] = exec_error

C12_Witness ==
    /\ lastNode = report_agent_outputs
    /\ IsInt(exec_error)
    /\ fixes = 2
    /\ state["retry_count"] = state["max_retries"]

\* repairs the initial counters allow: max(0, max_retries - retry_count),
\* none when either counter is missing
RepairBudget ==
    IF IsInt(state["retry_count"]) /\ IsInt(state["max_retries"])
    THEN LET initial_retry_count == state["retry_count"][1] - fixes
             d == state["max_retries"][1] - initial_retry_count
         IN  IF d > 0 THEN d ELSE 0
    ELSE 0

RetryLoopBounded ==
    ~params.human_in_the_loop =>
        /\ fixes <= RepairBudget
        /\ executes <= RepairBudget + 1

\* C13: without human review the fix node runs at most
\* max(0, max_retries - initial retry_count) times, the execute node at most
\* once more, and the run ends in the report node or the terminal state,
\* whatever the executions do.
C13_RunEndsInReportOrEnd ==
    ~params.human_in_the_loop =>
        /\ fixes <= RepairBudget
        /\ executes <= RepairBudget + 1
        /\ pc \in app.graph.nodes \cup {END}

\* C15: at every step the previous messages sequence is a prefix of the new
\* one, and the message a node produces is added at the end.
C15_MessagesAppendOnly ==
    [][ /\ IsPrefix(state["messages"], state'["messages"])
        /\ (pc = report_agent_outputs /\ vars' # vars) =>
              /\ Len(state'["messages"]) = Len(state["messages"]) + 1
              /\ state'["messages"][Len(state'["messages"])].role
                    = "data_cleaning_agent" ]_vars

C15_Witness ==
    /\ lastNode = report_agent_outputs
    /\ Len(state["messages"]) = 2
    /\ state["messages"][1].role = "user"

\* C20: after every execute step the namespace holds exactly the names the
\* code of this attempt defines; no name bound by an earlier attempt's code
\* is in it.
C20_FreshNamespace ==
    lastNode = execute_data_cleaner_code =>
        LET agent_code == Get(state, "data_cleaner_function")
            code == IF agent_code = None THEN "def_raises"
                    ELSE Val(agent_code)
        IN  /\ local_vars = exec(code, [n \in {} |-> n])
            /\ \A n \in DOMAIN local_vars : local_vars[n] = code

\* a second attempt whose code no longer defines the agent function, after a
\* first attempt that defined it
C20_Witness ==
    /\ lastNode = execute_data_cleaner_code
    /\ fixes >= 1
    /\ executes >= 2
    /\ Get(state, "data_cleaner_function") = Some("absent")
    /\ agent_function_name \notin DOMAIN local_vars

\* C16: every call of the report node returns, with exactly one message that
\* holds the title and, for each requested key, the state's value or the
\* placeholder for an absent key, and nothing else; two calls on the same
\* state and key list return the same content.
C16_ReportContract ==
    /\ \A i \in 1..Len(ret) :
        /\ ~ret[i].raised
        /\ Len(ret[i].update.messages) = 1
        /\ LET content == ret[i].update.messages[1].content
           IN  /\ DOMAIN content = {"report_title"} \cup call.keys_to_include
               /\ content["report_title"] = Some(<<call.custom_title>>)
               /\ \A k \in call.keys_to_include :
                    content[k] =
                        IF k \notin DOMAIN state \/ state[k] = Absent
                        THEN Some(<<"<", k, "_not_found_in_state>">>)
                        ELSE state[k]
    /\ \A i, j \in 1..Len(ret) : ret[i] = ret[j]

\* C17: after update_params has returned, the stored parameters contain the
\* overrides, the compiled graph is the one built from the stored
\* parameters, and response is None.
C17_UpdateParamsRebuilds ==
    (call.method = "update_params" /\ ret.status = "returned") =>
        /\ \A k \in DOMAIN call.overrides : params[k] = call.overrides[k]
        /\ app = make_data_cleaning_agent(params)
        /\ self_response = None

\* an override that changes a flag, given to an object that held a response
C17_Witness ==
    /\ call.method = "update_params"
    /\ ret.status = "returned"
    /\ call.had_response
    /\ call.overrides = [k \in {"human_in_the_loop"} |-> TRUE]
    /\ app.graph.otherwise = human_review
    /\ self_response = None

C19_AccessorsFailSoftly ==
    /\ (call.method \in AccessorNames /\ self_response = None) =>
            ret = Returned(None)
    /\ self_response = None =>
            \A name \in AccessorNames, markdown \in BOOLEAN :
                CallAccessor(name, self_response, markdown) = Returned(None)

\* get_data_cleaned called after an update_params that wiped a response
C19_Witness ==
    /\ call.method = "get_data_cleaned"
    /\ self_response = None
    /\ call.had_response
    /\ call.overrides # <<>>
    /\ ret = Returned(None)

\* C28: retry_count changes only at the fix node, by +1; the fix node has
\* run at most max(0, max_retries - initial retry_count) times, review
\* rounds included; code executed once retry_count has reached max_retries
\* is not followed by the fix node.
C28_RetryBudgetSpansRounds ==
    /\ [](fixes <= RepairBudget)
    /\ [][ /\ state'["retry_count"] # state["retry_count"] =>
                /\ pc = fix_data_cleaner_code
                /\ IsInt(state["retry_count"])
                /\ state'["retry_count"]
                      = Some(Val(state["retry_count"]) + 1)
           /\ ( /\ pc = execute_data_cleaner_code
                /\ IsInt(state["retry_count"])
                /\ IsInt(state["max_retries"])
                /\ Val(state["retry_count"]) >= Val(state["max_retries"]) )
              => pc' # fix_data_cleaner_code ]_vars

\* after a rejection, regenerated code failed with the budget used up and
\* the run went back to review without a repair
C28_Witness ==
    /\ params.human_in_the_loop
    /\ rounds >= 1
    /\ fixes >= 1
    /\ fixes = RepairBudget
    /\ executes >= fixes + 2
    /\ lastNode = execute_data_cleaner_code
    /\ Get(state, "data_cleaner_error") # None
    /\ pc = human_review

\* C21: the step that resumes a run suspended in the review node is the
\* review node itself, applying the reviewer's decision to the state saved
\* at the suspension; recommend, create, execute and fix do not run in it.
C21_ResumeWithoutReplay ==
    [][ pc = human_review =>
          /\ self_response = Some(state)
          /\ lastNode' = human_review
          /\ LET c == node_func_human_review(Val(self_response),
                                             app.yes_goto, app.no_goto,
                                             user_input')
             IN  /\ user_input' \in ReviewInputs
                 /\ state' = ApplyUpdate(Val(self_response), c.update)
                 /\ goto' = c.goto
          /\ UNCHANGED <<llm_out, summary_by, hist>> ]_vars

\* a rejection was applied in a graph that was given no checkpointer
C21_Witness ==
    /\ params.human_in_the_loop
    /\ params.checkpointer = None
    /\ lastNode = human_review
    /\ rounds >= 1
    /\ executes >= 1
    /\ pc = recommend_cleaning_steps

\* operations of the manager that name a table which has to exist
TableOps ==
    {"read_table", "insert_data", "update_rows", "delete_rows", "drop_table",
     "get_schema", "get_statistics", "aggregation"}

\* the table named in the call existed when the call was made
CallExisted == call.table_name \in DOMAIN call.before.connection.tables

\* C22: create_table on an existing name with replace=False raises
\* ValueError and leaves the manager as it was; with replace=True the table
\* holds exactly the rows of the new data once the call has returned.
C22_CreateExisting ==
    (call.method = "create_table" /\ CallExisted) =>
        /\ ~call.replace =>
              /\ ret = Raised("ValueError")
              /\ state = call.before
        /\ (call.replace /\ ret.status = "returned") =>
              state.connection.tables[call.table_name].rows = call.data.rows

\* a table with rows was named again with other rows and without replace
C22_Witness ==
    /\ call.method = "create_table"
    /\ CallExisted
    /\ ~call.replace
    /\ call.data.kind = "frame"
    /\ Len(state.connection.tables[call.table_name].rows) > 0
    /\ call.data.rows # state.connection.tables[call.table_name].rows
    /\ ret = Raised("ValueError")

\* C23: an operation naming a table that does not exist raises ValueError
\* and changes neither tables, rows nor metadata.
C23_MissingTableRaises ==
    (call.method \in TableOps /\ ~CallExisted) =>
        /\ ret = Raised("ValueError")
        /\ state = call.before

\* drop_table of a missing table, next to a table that holds rows
C23_Witness ==
    /\ call.method = "drop_table"
    /\ ~CallExisted
    /\ ret = Raised("ValueError")
    /\ \E n \in DOMAIN state.connection.tables :
          Len(state.connection.tables[n].rows) > 0

\* C24: the metadata has an entry for a name exactly when a table of that
\* name exists.
C24_MetadataMatchesTables ==
    DOMAIN state.metadata = DOMAIN state.connection.tables

\* one of two tables was dropped
C24_Witness ==
    /\ call.method = "drop_table"
    /\ ret.status = "returned"
    /\ DOMAIN call.before.connection.tables = TableNames
    /\ DOMAIN state.metadata = TableNames \ {call.table_name}

\* C25: the row_count of every metadata entry is the number of rows of its
\* table; insert_data returns the number of rows of its data and the table
\* has that many rows more.
C25_RowCountTracked ==
    /\ \A n \in DOMAIN state.metadata \cap DOMAIN state.connection.tables :
          state.metadata[n].row_count = Len(state.connection.tables[n].rows)
    /\ (call.method = "insert_data" /\ ret.status = "returned") =>
          /\ ret.value = Len(call.data.rows)
          /\ Len(state.connection.tables[call.table_name].rows)
                = Len(call.before.connection.tables[call.table_name].rows)
                  + ret.value

\* C26: update_rows returns the number of rows that matched the where
\* clause and leaves the number of rows as it was.
C26_UpdateReturnsMatches ==
    (call.method = "update_rows" /\ ret.status = "returned") =>
        LET rows == call.before.connection.tables[call.table_name].rows
        IN  /\ ret.value =
                  Cardinality({i \in 1..Len(rows) :
                                 Matches(call.where_clause, rows[i])})
            /\ Len(state.connection.tables[call.table_name].rows)
                  = Len(rows)

\* C30: a create_table call that raised left tables and metadata as they
\* were.
C30_FailedCreateKeepsDatabase ==
    (call.method = "create_table" /\ ret.status = "raised") =>
        /\ state.connection.tables = call.before.connection.tables
        /\ state.metadata = call.before.metadata

\* run met one of the failures the claim names: None input, execute raising,
\* or the notebook not written
RunFailed ==
    \/ call.data = None
    \/ call.execute_outcome.kind = "raises"
    \/ call.save_outcome = "IOError"

\* C27 as stated: run returns whatever execute raises.
C27_RunNeverRaises ==
    call.method = "run" => ret.status = "returned"

\* C27, amended: when execute raises nothing or an exception deriving from
\* Exception, run returns; on None input, on execute raising or on the
\* notebook not being written the mapping has status error and the
\* exception text in error, otherwise status success, the results, and the
\* path of a notebook file that has been written.
C27_RunReportsExceptions ==
    ( /\ call.method = "run"
      /\ \/ call.data = None
         \/ call.execute_outcome.kind = "returns"
         \/ DerivesFromException(call.execute_outcome.value[1]) ) =>
        /\ ret.status = "returned"
        /\ RunFailed =>
              /\ ret.value.status = "error"
              /\ ret.value.error \in
                    { Some("Input data cannot be None"),
                      Some("Intentional error"),
                      Some("Failed to save notebook") }
              /\ call.data = None =>
                    ret.value.error = Some("Input data cannot be None")
              /\ state.files = call.before.files
        /\ ~RunFailed =>
              /\ ret.value.status = "success"
              /\ ret.value.results = Some(call.execute_outcome.value)
              /\ ret.value.results = Some(state.results)
              /\ Val(ret.value.notebook_path) \in state.files
              /\ Val(ret.value.notebook_path) \notin call.before.files

\* a second run whose execute raised ValueError, after a run that succeeded
C27_Witness ==
    /\ call.method = "run"
    /\ call.n = 2
    /\ call.data # None
    /\ call.execute_outcome.kind = "raises"
    /\ DerivesFromException(call.execute_outcome.value[1])
    /\ ret = Returned(ErrorMapping("Intentional error"))
    /\ state.files # {}

\* ainvoke_agent and the update_params called during it have both finished
BothFinished ==
    /\ call.method = "ainvoke_agent"
    /\ call.overrides # <<>>
    /\ ret.status = "returned" \/ pc = RAISED

\* C29: once ainvoke_agent and an update_params called while it was in
\* flight have both finished, self.response is None or the result of a run
\* on the rebuilt graph, never that of the run on the discarded graph; no
\* run has been started on the rebuilt graph by then, and the response the
\* run in flight stores is that of the graph it was started on.
C29_ResponseNotFromDiscardedGraph ==
    BothFinished => self_response = None

====
